---- MODULE Spec2Model ----
(***************************************************************************)
(* A model of WolframKernelService (src/src/wolframKernelService.ts): the  *)
(* supervisor of the engine process, the port-discovery handshake, the     *)
(* request path over a per-request socket, the evaluation window with its  *)
(* captured output, and restart/dispose/updateConfig.                      *)
(*                                                                         *)
(* Scheduling.  The service runs on the Node event loop.  Every public     *)
(* call and every I/O callback (stdout/stderr data, error, close, socket   *)
(* connect/data/error, the grace timer) is one macrotask and one action.   *)
(* The continuation of an `await` whose promise is settled runs as a       *)
(* microtask, before any other macrotask; so the action that settles a     *)
(* promise (or that issues a call on an already settled promise) also      *)
(* runs every continuation up to the next pending await.  Those            *)
(* continuations only read port/disposed/systemNames and write their own   *)
(* call, or clear isEvaluating, so their relative order is immaterial.     *)
(* A call that has settled hands its outcome to its caller in the same     *)
(* drain (Return), which frees its slot.                                   *)
(***************************************************************************)
EXTENDS Naturals, Sequences, FiniteSets

\* ------------------------------------------------------------- bounds
\* Engine processes spawned over a run (construction plus restarts).
MaxProcs == 2
\* The same, where only the supervisor acts (SpecLifecycle).
LifeProcs == 3
\* Requests (evaluate, getSystemNames, getFunctionUsage) that callers have
\* in flight at once.
MaxCalls == 1
\* Lines captured in currentEvaluationOutputs within one window.
MaxBuf == 2
\* The same, where one evaluation after another is followed (SpecEnrich).
EnrichBuf == 4
\* Bytes a connection accumulates before the newline (SpecFraming).
MaxFrame == 5
\* evaluate() calls that callers let overlap (SpecOverlap).
MaxOverlap == 2
\* Selections of the editor when the command is invoked (SpecCommand).
MaxSel == 3

VARIABLES
    procs,      \* every engine process spawned so far, in spawn order
    process,    \* this.process: index into procs, 0 = undefined
    port,       \* this.port: 0 = undefined
    initPromise,\* this.initPromise: index of the start attempt it stands for
    disposed,   \* this.disposed
    systemNames,\* this.systemNames
    currentEvaluationOutputs, \* this.currentEvaluationOutputs
    isEvaluating,             \* this.isEvaluating
    wolframPath,\* this.wolframPath
    limits,     \* the bounds of the run: processes, captured lines
    starts,     \* per start attempt, the call that awaits it: the
                \* constructor's hook (first) or a restart() call
    calls,      \* the callers' requests in flight, by slot
    command     \* the evaluate-line command of extension.ts in progress

vars == <<procs, process, port, initPromise, disposed, systemNames,
          currentEvaluationOutputs, isEvaluating, wolframPath, limits, starts,
          calls, command>>

\* ------------------------------------------------------------ strings
\* A string is the sequence of its characters.
S_Sentinel == <<"E","r","r","o","r",":"," ","E","v","a","l","u","a","t","i","o","n"," ","f","a","i","l","e","d">>
\* the literal of line 248
S_ErrorPrefix == <<"E","r","r","o","r",":"," ">>
\* the prefixes of line 243
S_KernelTag == <<"[","K","e","r","n","e","l","]">>
S_StdoutTag == <<"S","T","D","O","U","T",":">>
S_StderrTag == <<"S","T","D","E","R","R",":">>
\* the marker of line 247
S_MessageTag == <<":",":">>
S_Empty == <<>>
\* lines an engine may print
L_KernelDebug == <<"[","K","e","r","n","e","l","]"," ","d","e","b","u","g">>
L_PowerInfy == <<"P","o","w","e","r",":",":","i","n","f","y",":"," ","m","e","s","s","a","g","e">>
L_Trailing == <<"t","r","a","i","l","i","n","g">>
L_PlainOne == <<"p","l","a","i","n"," ","l","i","n","e"," ","o","n","e">>
L_PlainTwo == <<"p","l","a","i","n"," ","l","i","n","e"," ","t","w","o">>
L_Blank == <<" "," ","\t">>
L_IndentedKernel == <<" ","[","K","e","r","n","e","l","]"," ","x">>
L_StdoutLog == <<"S","T","D","O","U","T",":"," ","a",":",":","b">>
L_StderrLog == <<"S","T","D","E","R","R",":"," ","y">>
L_PaddedTag == <<" ","a",":",":","b"," ">>
L_KernelError == <<"[","K","e","r","n","e","l"," ","E","r","r","o","r","]"," ","k">>
L_OneColon == <<"x",":","y">>
\* responses an engine may give
R_Four == <<"4">>
R_AlmostSentinel == <<"E","r","r","o","r",":"," ","E","v","a","l","u","a","t","i","o","n"," ","f","a","i","l","e","d"," ">>
R_Usage == <<"S","i","n","[","z","]">>
\* completion names
N_Sin == <<"S","i","n">>
N_Cos == <<"C","o","s">>
\* chunks an engine may write
T_TwoLines == <<"a",":",":","b","\r","\n","c">>
T_OneLine == <<"x",":","y">>
T_Newline == <<"z","\n">>
\* expected results of the two examples
E_PowerInfy == <<"E","r","r","o","r",":"," ","P","o","w","e","r",":",":","i","n","f","y",":"," ","m","e","s","s","a","g","e">>
E_PlainOne == <<"E","r","r","o","r",":"," ","p","l","a","i","n"," ","l","i","n","e"," ","o","n","e">>

\* String.prototype.trim removes white space at both ends.
IsSpace(c) == c \in {" ", "\t", "\r", "\n"}

RECURSIVE TrimStart(_)
TrimStart(s) ==
    IF s # <<>> /\ IsSpace(Head(s)) THEN TrimStart(Tail(s)) ELSE s

RECURSIVE TrimEnd(_)
TrimEnd(s) ==
    IF s # <<>> /\ IsSpace(s[Len(s)]) THEN TrimEnd(SubSeq(s, 1, Len(s) - 1)) ELSE s

Trim(s) == TrimEnd(TrimStart(s))

StartsWith(s, p) == Len(s) >= Len(p) /\ SubSeq(s, 1, Len(p)) = p

Includes(s, p) ==
    \E i \in 1..Len(s) : i + Len(p) - 1 <= Len(s) /\ SubSeq(s, i, i + Len(p) - 1) = p

\* str.split(/\r?\n/): cut at every "\n", dropping a "\r" right before it.
RECURSIVE SplitFrom(_, _, _)
SplitFrom(s, i, cur) ==
    IF i > Len(s) THEN <<cur>>
    ELSE IF s[i] = "\n"
         THEN <<(IF cur # <<>> /\ cur[Len(cur)] = "\r"
                 THEN SubSeq(cur, 1, Len(cur) - 1) ELSE cur)>>
              \o SplitFrom(s, i + 1, <<>>)
         ELSE SplitFrom(s, i + 1, Append(cur, s[i]))

SplitLines(s) == SplitFrom(s, 1, <<>>)

\* ---------------------------------------------------------- JSON values
\* A parsed response: a string (s), an array of strings (a), or a number.
JString(s) == [t |-> "string", s |-> s, a |-> <<>>]
JArray(a) == [t |-> "array", s |-> <<>>, a |-> a]
JNumber == [t |-> "number", s |-> <<>>, a |-> <<>>]
\* The value of a call that has not returned one.
NoValue == [t |-> "none", s |-> <<>>, a |-> <<>>]

\* ------------------------------------------------- the response line
\* Bytes a connection may deliver in one 'data' event.
K_Quote == <<"\"">>
K_Four == <<"4">>
K_X == <<"x">>
K_Newline == <<"\n">>
K_QuoteCRLF == <<"\"", "\r", "\n">>
K_EmptyArray == <<"[", "]", "\n">>
K_Names == <<"[", "\"", "x", "\"", "]", "\n">>
K_TwoLines == <<"4", "\n", "x">>

\* s.split(sep), sep a character.
RECURSIVE Parts(_, _)
Parts(s, sep) ==
    IF \E i \in 1..Len(s) : s[i] = sep
    THEN LET i == CHOOSE n \in 1..Len(s) :
                      s[n] = sep /\ \A m \in 1..(n - 1) : s[m] # sep
         IN  <<SubSeq(s, 1, i - 1)>> \o Parts(SubSeq(s, i + 1, Len(s)), sep)
    ELSE <<s>>

\* Mutant of FirstPart: the whole buffer is parsed.
FirstPart_Whole(buf) == buf

\* Lines 205-207: responseBuffer.split('\n')[0].
FirstPart(buf) == Parts(buf, "\n")[1]

\* JSON.parse (line 210) on the texts the connection can deliver: string
\* literals without escapes, unsigned integers, arrays of such strings,
\* with surrounding whitespace.  NoValue: SyntaxError.
IsJSONString(s) ==
    /\ Len(s) >= 2
    /\ s[1] = "\"" /\ s[Len(s)] = "\""
    /\ \A i \in 2..(Len(s) - 1) : s[i] \notin {"\"", "\\", "\r", "\n", "\t"}

IsJSONNumber(s) ==
    /\ Len(s) >= 1
    /\ \A i \in 1..Len(s) : s[i] \in {"0", "1", "2", "3", "4", "5", "6", "7", "8", "9"}
    /\ Len(s) > 1 => s[1] # "0"

JSONStringValue(s) == SubSeq(s, 2, Len(s) - 1)

IsJSONArray(s) ==
    /\ Len(s) >= 2
    /\ s[1] = "[" /\ s[Len(s)] = "]"
    /\ LET inner == Trim(SubSeq(s, 2, Len(s) - 1))
       IN  \/ inner = <<>>
           \/ \A i \in 1..Len(Parts(inner, ",")) :
                 IsJSONString(Trim(Parts(inner, ",")[i]))

JSONArrayValue(s) ==
    LET inner == Trim(SubSeq(s, 2, Len(s) - 1))
    IN  IF inner = <<>> THEN <<>>
        ELSE [i \in 1..Len(Parts(inner, ",")) |->
                 JSONStringValue(Trim(Parts(inner, ",")[i]))]

ParseJSON(text) ==
    LET s == Trim(text)
    IN  IF IsJSONString(s) THEN JString(JSONStringValue(s))
        ELSE IF IsJSONNumber(s) THEN JNumber
        ELSE IF IsJSONArray(s) THEN JArray(JSONArrayValue(s))
        ELSE NoValue

\* --------------------------------------------- evaluate: the enrichment
\* Mutant of IsErrorMessage: the diagnostic-log prefixes are not excluded.
IsErrorMessage_KeepsLogs(s) == Len(s) > 0

\* The filter of line 243, on a trimmed line.
IsErrorMessage(s) ==
    /\ Len(s) > 0
    /\ ~StartsWith(s, S_KernelTag)
    /\ ~StartsWith(s, S_StdoutTag)
    /\ ~StartsWith(s, S_StderrTag)

\* Lines 241-243: map(trim), then filter.
ErrorMessages(outputs) ==
    SelectSeq([i \in 1..Len(outputs) |-> Trim(outputs[i])], IsErrorMessage)

HasMessageTag(s) == Includes(s, S_MessageTag)

\* Line 247: find(s => s.includes('::')) || errorMessages[0].
SpecificError(errorMessages) ==
    LET tagged == SelectSeq(errorMessages, HasMessageTag)
    IN  IF tagged # <<>> THEN tagged[1] ELSE errorMessages[1]

\* Lines 235-251: what evaluate returns for a response, given the buffer
\* read after the grace period.
EvaluateResult(result, outputs) ==
    IF result = JString(S_Sentinel) /\ ErrorMessages(outputs) # <<>>
    THEN JString(S_ErrorPrefix \o SpecificError(ErrorMessages(outputs)))
    ELSE result

\* ------------------------------------------------------ engine processes
\* The port process i listens on and announces ("PORT:<digits>").
PortOf(i) == i

\* spawn (line 92): the child, its start promise and the closure's portFound.
\* st: running | killed (SIGKILL sent, close not yet delivered) |
\*     failed (the executable could not be started) | closed.
NewProcess(ok) ==
    [st |-> IF ok THEN "running" ELSE "failed",
     sig |-> "pending",
     portFound |-> FALSE,
     errored |-> FALSE,
     kills |-> 0,       \* calls of kill('SIGKILL') on this child
     stream |-> <<>>,   \* the bytes the engine writes to stdout
     read |-> 0,        \* how many of them 'data' events have delivered
     stdoutBuffer |-> <<>>] \* the closure's stdoutBuffer (line 124)

Live(i) == procs[i].st = "running"
LiveProcesses == {i \in DOMAIN procs : Live(i)}

\* ChildProcess.kill('SIGKILL') on handle h (line 262).
Kill(ps, h) ==
    IF h = 0 THEN ps
    ELSE [ps EXCEPT ![h].st = IF @ = "running" THEN "killed" ELSE @,
                    ![h].kills = @ + 1]

\* ------------------------------------------------------------- calls
\* One record per async call.  kind: evaluate | completion (getSystemNames)
\* | usage (getFunctionUsage) | restart | prime (the constructor's hook).
\* pc: idle | awaitStart (line 61; line 36 for the hook) | awaitInit
\*     (line 183) | connecting | sent | grace (line 237) | resolved |
\*     rejected | over (the outcome was handed to the caller).
NewCall(kind, via) ==
    [kind |-> kind, pc |-> "idle",
     via |-> via,       \* who made the call: caller | updateConfig | constructor
     aw |-> 0,          \* awaitInit: the start attempt whose promise is awaited
     waited |-> FALSE,  \* the request was held at line 183 by a pending promise
     port |-> 0,        \* the port the socket was connected to (line 192)
     wrote |-> FALSE,   \* the request was written (line 195)
     sock |-> "none",   \* the Socket of line 190: none | connecting |
                        \* open | ended (line 211) | destroyed (by its error)
     rbuf |-> <<>>,     \* responseBuffer (line 198)
     hit |-> FALSE,     \* getSystemNames returned the cache (line 153)
     err |-> "none",    \* the failure met, if any
     val |-> NoValue]   \* the value returned

Idle == NewCall("none", "none")
Over == [Idle EXCEPT !.pc = "over"]

Completed(c) == c.pc \in {"resolved", "rejected"}

\* Mutant of RequestFailed: the catch blocks of getSystemNames and
\* getFunctionUsage rethrow.
RequestFailed_Rethrow(c, e) == [c EXCEPT !.pc = "rejected", !.err = e]

\* A failure of sendRequest, as its caller turns it into an outcome:
\* evaluate rethrows (lines 232-254), getSystemNames returns [] (162-165),
\* getFunctionUsage returns "" (172-175); restart awaits getSystemNames.
RequestFailed(c, e) ==
    CASE c.kind = "evaluate" ->
            [c EXCEPT !.pc = "rejected", !.err = e]
      [] c.kind = "usage" ->
            [c EXCEPT !.pc = "resolved", !.err = e, !.val = JString(S_Empty)]
      [] OTHER ->
            [c EXCEPT !.pc = "resolved", !.err = e, !.val = JArray(<<>>)]

\* Mutant of SendRequestAfterInit: the port test of lines 185-187 is
\* missing.
SendRequestAfterInit_NoPortTest(c, ps, prt) ==
    IF ps[c.aw].sig = "rejected" THEN RequestFailed([c EXCEPT !.aw = 0], "init")
    ELSE [c EXCEPT !.pc = "connecting", !.port = prt,
            !.sock = "connecting", !.aw = 0]

\* sendRequest from line 185 on, run once the awaited promise is settled.
SendRequestAfterInit(c, ps, prt) ==
    IF ps[c.aw].sig = "rejected" THEN RequestFailed([c EXCEPT !.aw = 0], "init")
    ELSE IF prt = 0 THEN RequestFailed([c EXCEPT !.aw = 0], "notRunning")
    ELSE [c EXCEPT !.pc = "connecting", !.port = prt,
            !.sock = "connecting", !.aw = 0]

\* Mutant of SendRequest: line 183 (await this.initPromise) is missing.
SendRequest_NoAwait(c, ps, prt, disp, ip) ==
    IF disp THEN RequestFailed(c, "disposed")
    ELSE IF prt = 0 THEN RequestFailed(c, "notRunning")
    ELSE [c EXCEPT !.pc = "connecting", !.port = prt,
            !.sock = "connecting"]

\* Mutant of SendRequest: the disposed test of lines 179-181 comes after
\* the await of line 183.
SendRequest_AwaitFirst(c, ps, prt, disp, ip) ==
    LET c1 == [c EXCEPT !.aw = ip]
    IN  IF ps[ip].sig = "pending"
        THEN [c1 EXCEPT !.pc = "awaitInit", !.waited = TRUE]
        ELSE IF disp THEN RequestFailed(c, "disposed")
        ELSE SendRequestAfterInit(c1, ps, prt)

\* sendRequest (lines 178-196) up to its first pending await.
SendRequest(c, ps, prt, disp, ip) ==
    IF disp THEN RequestFailed(c, "disposed")
    ELSE LET c1 == [c EXCEPT !.aw = ip]
         IN  IF ps[ip].sig = "pending"
             THEN [c1 EXCEPT !.pc = "awaitInit", !.waited = TRUE]
             ELSE SendRequestAfterInit(c1, ps, prt)

\* Mutant of GetSystemNamesBody: the cache test of line 152 is missing.
GetSystemNamesBody_NoCache(c, names, ps, prt, disp, ip) ==
    SendRequest(c, ps, prt, disp, ip)

\* getSystemNames (lines 151-156) up to its first pending await.
GetSystemNamesBody(c, names, ps, prt, disp, ip) ==
    IF Len(names) > 0
    THEN [c EXCEPT !.pc = "resolved", !.hit = TRUE, !.val = JArray(names)]
    ELSE SendRequest(c, ps, prt, disp, ip)

\* Mutant of AfterStart: the hook returns the promise of getSystemNames
\* (`.then(() => this.getSystemNames()...)`), so the derived promise that
\* the hook awaits at line 183 waits for the hook itself.
AfterStart_ReturnsPromise(c, i, names, ps, prt, disp, ip) ==
    IF ps[i].sig = "rejected"
    THEN IF c.kind = "restart"
         THEN [c EXCEPT !.pc = "rejected", !.err = "init"]
         ELSE Over
    ELSE IF c.kind = "prime" /\ Len(names) = 0 /\ ~disp
    THEN [c EXCEPT !.via = "none", !.pc = "awaitInit", !.aw = ip,
                   !.waited = TRUE]
    ELSE GetSystemNamesBody([c EXCEPT !.via = "none"], names, ps, prt, disp, ip)

\* The call awaiting start attempt i, once that start has settled:
\* restart after `await this.initPromise` (lines 61-66) rethrows a failed
\* start and else calls getSystemNames; the constructor's hook (lines
\* 36-38) runs only after a successful start, and its await of initPromise
\* resumes in the same drain, the derived promise resolving when the hook
\* returns.
AfterStart(c, i, names, ps, prt, disp, ip) ==
    IF ps[i].sig = "rejected"
    THEN IF c.kind = "restart"
         THEN [c EXCEPT !.pc = "rejected", !.err = "init"]
         ELSE Over
    ELSE GetSystemNamesBody([c EXCEPT !.via = "none"], names, ps, prt, disp, ip)

\* Every continuation that the settling of start attempt i releases.
StartsSettled(ss, i, names, ps, prt, disp, ip) ==
    [j \in DOMAIN ss |->
        IF ss[j].pc = "awaitStart" /\ j = i
        THEN AfterStart(ss[j], i, names, ps, prt, disp, ip)
        ELSE IF ss[j].pc = "awaitInit" /\ ss[j].aw = i
        THEN SendRequestAfterInit(ss[j], ps, prt)
        ELSE ss[j]]

CallsSettled(cs, i, ps, prt) ==
    [k \in DOMAIN cs |->
        IF cs[k].pc = "awaitInit" /\ cs[k].aw = i
        THEN SendRequestAfterInit(cs[k], ps, prt)
        ELSE cs[k]]

\* Mutant of EvaluateFinished: the flag is cleared after the try block, not
\* in a finally, so only when evaluate returns.
EvaluateFinished_NoFinally(old, new) ==
    \E k \in DOMAIN new :
        /\ new[k].kind = "evaluate"
        /\ new[k].pc = "resolved"
        /\ ~Completed(old[k])

\* An evaluate call completed in this step: its finally ran (line 253).
EvaluateFinished(old, new) ==
    \E k \in DOMAIN new :
        /\ new[k].kind = "evaluate"
        /\ Completed(new[k])
        /\ ~Completed(old[k])

\* A settled call's outcome is with its caller before the next macrotask.
Settling ==
    \/ \E j \in DOMAIN starts : Completed(starts[j])
    \/ \E k \in DOMAIN calls : Completed(calls[k])

FreeSlots == {k \in DOMAIN calls : calls[k].pc = "idle"}
FreeSlot == CHOOSE k \in FreeSlots : \A m \in FreeSlots : k <= m

\* ------------------------------------------ the evaluate-line command
\* evaluateLineWithWolfram (extension.ts lines 309-410): no invocation yet.
\* pc: idle | evaluating (line 351) | editing (line 373) | done.
NoCommand ==
    [pc |-> "idle",
     lineNumbers |-> <<>>,    \* line 319
     i |-> 0,                 \* the loop index of line 337, from 1
     successMessage |-> FALSE,\* options.successMessage is given
     results |-> <<>>,        \* line 334
     inserted |-> <<>>,       \* the insertions the edit of line 373 made
     errors |-> <<>>,         \* showErrorMessage calls (lines 355, 407)
     info |-> FALSE,          \* showInformationMessage was called (line 404)
     issued |-> <<>>,         \* the lines evaluate() was called for
     rejected |-> FALSE]      \* an awaited evaluate() rejected

\* ------------------------------------------------------------ inputs
\* Executable paths a configuration may name; NoPath: none given.
DefaultPath == "wolframscript"
NoPath == ""
Paths == {DefaultPath, "wolfram"}
\* Text an engine writes on stdout or stderr in one chunk.
Chunks == {T_TwoLines, T_OneLine}
\* Values a response line may parse to.
Responses == {JString(S_Sentinel), JString(R_Four),
              JArray(<<N_Sin, N_Cos>>), JArray(<<>>), JNumber}

\* -------------------------------------------------------------- Init
\* The state the constructor leaves (lines 32-39): updateConfig(config,
\* false) has set the path, startKernel has spawned the first process,
\* initPromise stands for that start and the hook waits for it.
InitWith(nProcs, nCalls, nBuf) ==
    /\ limits = [procs |-> nProcs, buf |-> nBuf]
    /\ command = NoCommand
    /\ wolframPath \in Paths
    /\ \E ok \in BOOLEAN : procs = <<NewProcess(ok)>>
    /\ process = 1
    /\ port = 0
    /\ initPromise = 1
    /\ disposed = FALSE
    /\ systemNames = <<>>
    /\ currentEvaluationOutputs = <<>>
    /\ isEvaluating = FALSE
    /\ starts = <<[NewCall("prime", "constructor") EXCEPT !.pc = "awaitStart"]>>
    /\ calls = [k \in 1..nCalls |-> Idle]

Init == InitWith(MaxProcs, MaxCalls, MaxBuf)

\* ------------------------------------------------------ public calls
\* Mutant of Dispose: the handle is not cleared after the kill (line 263
\* is missing).
Dispose_KeepsHandle ==
    /\ ~Settling
    /\ disposed' = TRUE
    /\ procs' = Kill(procs, process)
    /\ process # 0 => procs[process].kills < 2
    /\ UNCHANGED <<limits, command, process, port, initPromise, systemNames,
                   currentEvaluationOutputs, isEvaluating, wolframPath, starts,
                   calls>>

\* dispose (lines 257-265).
Dispose ==
    /\ ~Settling
    /\ disposed' = TRUE
    /\ procs' = Kill(procs, process)
    /\ process' = 0
    /\ UNCHANGED <<limits, command, port, initPromise, systemNames, currentEvaluationOutputs,
                   isEvaluating, wolframPath, starts, calls>>

\* restart (lines 56-61) up to its first await: dispose, clear the flag,
\* start a new process and take its promise as initPromise.
RestartKernel(via) ==
    /\ Len(procs) < limits.procs
    /\ \E ok \in BOOLEAN :
          procs' = Append(Kill(procs, process), NewProcess(ok))
    /\ process' = Len(procs) + 1
    /\ initPromise' = Len(procs) + 1
    /\ disposed' = FALSE
    /\ starts' = Append(starts, [NewCall("restart", via)
                                   EXCEPT !.pc = "awaitStart"])

Restart ==
    /\ ~Settling
    /\ RestartKernel("caller")
    /\ UNCHANGED <<limits, command, port, systemNames, currentEvaluationOutputs, isEvaluating,
                   wolframPath, calls>>

\* Mutant of PathChanged: the path is not compared with the previous one.
PathChanged_AnyPath(cfgPath, restartKernel, prevPath) ==
    restartKernel /\ cfgPath # NoPath

\* The condition of line 48.
PathChanged(cfgPath, restartKernel, prevPath) ==
    restartKernel /\ cfgPath # NoPath /\ cfgPath # prevPath

\* updateConfig (lines 42-53).
UpdateConfig(cfgPath, restartKernel) ==
    /\ ~Settling
    /\ wolframPath' = IF cfgPath # NoPath THEN cfgPath ELSE wolframPath
    /\ IF PathChanged(cfgPath, restartKernel, wolframPath)
       THEN RestartKernel("updateConfig")
       ELSE UNCHANGED <<procs, process, initPromise, disposed, starts>>
    /\ UNCHANGED <<limits, command, port, systemNames, currentEvaluationOutputs, isEvaluating,
                   calls>>

\* evaluate (lines 227-233) up to its first pending await.
Evaluate ==
    /\ ~Settling
    /\ FreeSlots # {}
    /\ LET c == SendRequest(NewCall("evaluate", "caller"),
                            procs, port, disposed, initPromise)
       IN  /\ calls' = [calls EXCEPT ![FreeSlot] = c]
           /\ isEvaluating' = ~Completed(c)
    /\ currentEvaluationOutputs' = <<>>
    /\ UNCHANGED <<limits, command, procs, process, port, initPromise, disposed, systemNames,
                   wolframPath, starts>>

\* getSystemNames (lines 151-166) up to its first pending await.
GetSystemNames ==
    /\ ~Settling
    /\ FreeSlots # {}
    /\ calls' = [calls EXCEPT ![FreeSlot] =
                    GetSystemNamesBody(NewCall("completion", "caller"),
                        systemNames, procs, port, disposed, initPromise)]
    /\ UNCHANGED <<limits, command, procs, process, port, initPromise, disposed, systemNames,
                   currentEvaluationOutputs, isEvaluating, wolframPath, starts>>

\* getFunctionUsage (lines 168-176) up to its first pending await.
GetFunctionUsage ==
    /\ ~Settling
    /\ FreeSlots # {}
    /\ calls' = [calls EXCEPT ![FreeSlot] =
                    SendRequest(NewCall("usage", "caller"),
                                procs, port, disposed, initPromise)]
    /\ UNCHANGED <<limits, command, procs, process, port, initPromise, disposed, systemNames,
                   currentEvaluationOutputs, isEvaluating, wolframPath, starts>>

\* The settled calls' outcomes reach their callers (the awaits of
\* extension.ts; the catch handlers of lines 37 and 51).
Return ==
    /\ Settling
    /\ starts' = [j \in DOMAIN starts |->
                    IF Completed(starts[j]) THEN Over ELSE starts[j]]
    /\ calls' = [k \in DOMAIN calls |->
                    IF Completed(calls[k]) THEN Idle ELSE calls[k]]
    /\ UNCHANGED <<limits, command, procs, process, port, initPromise, disposed, systemNames,
                   currentEvaluationOutputs, isEvaluating, wolframPath>>

\* ---------------------------------------------------- process events
\* Mutant of Captured: the isEvaluating tests of lines 105 and 131 are
\* missing.
Captured_Always(text) == currentEvaluationOutputs \o SplitLines(text)

\* The capture of lines 105-109 and 131-135.
Captured(text) ==
    IF isEvaluating
    THEN currentEvaluationOutputs \o SplitLines(text)
    ELSE currentEvaluationOutputs

\* Data may still be read from the pipe of a killed process until its
\* close event.
Emitting(i) == procs[i].st \in {"running", "killed"}

\* Mutant of StdoutData: every chunk is scanned for the marker (the
\* portFound test of line 137 is missing).
StdoutData_Rescans(i, text, marker) ==
    /\ ~Settling
    /\ Emitting(i)
    /\ Len(Captured(text)) <= limits.buf
    /\ currentEvaluationOutputs' = Captured(text)
    /\ IF marker
       THEN LET ps == [procs EXCEPT ![i].portFound = TRUE,
                                    ![i].sig = "resolved"]
                cs == CallsSettled(calls, i, ps, PortOf(i))
            IN  /\ port' = PortOf(i)
                /\ procs' = ps
                /\ calls' = cs
                /\ starts' = StartsSettled(starts, i, systemNames, ps,
                                           PortOf(i), disposed, initPromise)
                /\ isEvaluating' = (isEvaluating /\ ~EvaluateFinished(calls, cs))
       ELSE UNCHANGED <<port, procs, calls, starts, isEvaluating>>
    /\ UNCHANGED <<limits, command, process, initPromise, disposed, systemNames, wolframPath>>

\* stdout 'data' (lines 127-147).  marker: the accumulated stdoutBuffer
\* now matches /PORT:(\d+)/ (line 139).
StdoutData(i, text, marker) ==
    /\ ~Settling
    /\ Emitting(i)
    /\ Len(Captured(text)) <= limits.buf
    /\ currentEvaluationOutputs' = Captured(text)
    /\ IF ~procs[i].portFound /\ marker
       THEN LET ps == [procs EXCEPT ![i].portFound = TRUE,
                                    ![i].sig = "resolved"]
                cs == CallsSettled(calls, i, ps, PortOf(i))
            IN  /\ port' = PortOf(i)
                /\ procs' = ps
                /\ calls' = cs
                /\ starts' = StartsSettled(starts, i, systemNames, ps,
                                           PortOf(i), disposed, initPromise)
                /\ isEvaluating' = (isEvaluating /\ ~EvaluateFinished(calls, cs))
       ELSE UNCHANGED <<port, procs, calls, starts, isEvaluating>>
    /\ UNCHANGED <<limits, command, process, initPromise, disposed, systemNames, wolframPath>>

\* /PORT:(\d+)/ (line 139): the positions where "PORT:" and a digit follow.
Digits == <<"0", "1", "2", "3", "4", "5", "6", "7", "8", "9">>
IsDigit(c) == \E d \in 1..10 : Digits[d] = c
DigitValue(c) == (CHOOSE d \in 1..10 : Digits[d] = c) - 1

S_PortTag == <<"P", "O", "R", "T", ":">>

PortMatches(buf) ==
    {p \in 1..Len(buf) :
        /\ p + 5 <= Len(buf)
        /\ SubSeq(buf, p, p + 4) = S_PortTag
        /\ IsDigit(buf[p + 5])}

\* The capture group of the leftmost match: the longest run of digits.
PortDigits(buf) ==
    LET p == CHOOSE q \in PortMatches(buf) : \A r \in PortMatches(buf) : q <= r
        e == CHOOSE n \in (p + 5)..Len(buf) :
                 /\ \A m \in (p + 5)..n : IsDigit(buf[m])
                 /\ n = Len(buf) \/ ~IsDigit(buf[n + 1])
    IN  SubSeq(buf, p + 5, e)

\* parseInt(match[1], 10) (line 141).
RECURSIVE ParseInt(_)
ParseInt(ds) ==
    IF ds = <<>> THEN 0
    ELSE 10 * ParseInt(SubSeq(ds, 1, Len(ds) - 1)) + DigitValue(ds[Len(ds)])

\* stdout 'data' (lines 127-147) delivering the next n bytes of the
\* engine's output: capture, then the scan of the accumulated buffer.
StdoutBytes(i, n) ==
    LET text == SubSeq(procs[i].stream, procs[i].read + 1, procs[i].read + n)
        buf == procs[i].stdoutBuffer \o text
    IN  /\ ~Settling
        /\ Emitting(i)
        /\ n >= 1 /\ procs[i].read + n <= Len(procs[i].stream)
        /\ Len(Captured(text)) <= limits.buf
        /\ currentEvaluationOutputs' = Captured(text)
        /\ IF procs[i].portFound
           THEN /\ procs' = [procs EXCEPT ![i].read = @ + n]
                /\ UNCHANGED <<port, calls, starts, isEvaluating>>
           ELSE IF PortMatches(buf) = {}
           THEN /\ procs' = [procs EXCEPT ![i].read = @ + n,
                                          ![i].stdoutBuffer = buf]
                /\ UNCHANGED <<port, calls, starts, isEvaluating>>
           ELSE LET found == ParseInt(PortDigits(buf))
                    ps == [procs EXCEPT ![i].read = @ + n,
                                        ![i].stdoutBuffer = buf,
                                        ![i].portFound = TRUE,
                                        ![i].sig = "resolved"]
                    cs == CallsSettled(calls, i, ps, found)
                IN  /\ port' = found
                    /\ procs' = ps
                    /\ calls' = cs
                    /\ starts' = StartsSettled(starts, i, systemNames, ps,
                                               found, disposed, initPromise)
                    /\ isEvaluating' = (isEvaluating /\ ~EvaluateFinished(calls, cs))
        /\ UNCHANGED <<limits, command, process, initPromise, disposed, systemNames,
                       wolframPath>>

\* stderr 'data' (lines 102-110).
StderrData(i, text) ==
    /\ ~Settling
    /\ Emitting(i)
    /\ Len(Captured(text)) <= limits.buf
    /\ currentEvaluationOutputs' = Captured(text)
    /\ UNCHANGED <<limits, command, procs, process, port, initPromise, disposed, systemNames,
                   isEvaluating, wolframPath, starts, calls>>

\* 'error' (lines 112-115): the process could not be started.
ProcessError(i) ==
    /\ ~Settling
    /\ procs[i].st = "failed"
    /\ ~procs[i].errored
    /\ LET ps == [procs EXCEPT ![i].errored = TRUE, ![i].sig = "rejected"]
           cs == CallsSettled(calls, i, ps, port)
       IN  /\ procs' = ps
           /\ calls' = cs
           /\ starts' = StartsSettled(starts, i, systemNames, ps, port,
                                      disposed, initPromise)
           /\ isEvaluating' = (isEvaluating /\ ~EvaluateFinished(calls, cs))
    /\ UNCHANGED <<limits, command, process, port, initPromise, disposed, systemNames,
                   currentEvaluationOutputs, wolframPath>>

\* 'close' (lines 117-121): the process has exited, by itself or killed;
\* after a failed start it follows the error event.
Close(i) ==
    /\ ~Settling
    /\ \/ Emitting(i)
       \/ procs[i].st = "failed" /\ procs[i].errored
    /\ procs' = [procs EXCEPT ![i].st = "closed"]
    /\ process' = 0
    /\ port' = 0
    /\ UNCHANGED <<limits, command, initPromise, disposed, systemNames, currentEvaluationOutputs,
                   isEvaluating, wolframPath, starts, calls>>

\* ----------------------------------------------------- socket events
\* A call with a socket: a caller's request or the getSystemNames of a
\* restart or of the hook.
Refs == ({"start"} \X DOMAIN starts) \cup ({"call"} \X DOMAIN calls)
At(r) == IF r[1] = "start" THEN starts[r[2]] ELSE calls[r[2]]
Put(r, c) ==
    /\ starts' = IF r[1] = "start" THEN [starts EXCEPT ![r[2]] = c] ELSE starts
    /\ calls' = IF r[1] = "call" THEN [calls EXCEPT ![r[2]] = c] ELSE calls

\* A process serves its port while it runs.
ServerUp(p) == \E i \in DOMAIN procs : PortOf(i) = p /\ Live(i)

\* The connect callback (lines 192-196): the request is written.
SocketConnect(r) ==
    /\ ~Settling
    /\ At(r).pc = "connecting"
    /\ ServerUp(At(r).port)
    /\ Put(r, [At(r) EXCEPT !.pc = "sent", !.wrote = TRUE, !.sock = "open"])
    /\ UNCHANGED <<limits, command, procs, process, port, initPromise, disposed, systemNames,
                   currentEvaluationOutputs, isEvaluating, wolframPath>>

\* Mutant of Responded: evaluate throws on the sentinel instead of
\* returning a string.
Responded_Throws(c, v) ==
    IF c.kind = "evaluate" /\ v = JString(S_Sentinel)
    THEN [c EXCEPT !.pc = "rejected", !.err = "engine"]
    ELSE [c EXCEPT !.pc = "resolved", !.val = v]

\* What the awaiting function makes of a parsed response.
\* evaluate (lines 233-251), getSystemNames (156-165), getFunctionUsage
\* (170-171).
Responded(c, v) ==
    CASE c.kind = "evaluate" ->
            IF v = JString(S_Sentinel)
            THEN [c EXCEPT !.pc = "grace", !.val = v]
            ELSE [c EXCEPT !.pc = "resolved", !.val = v]
      [] c.kind = "usage" ->
            IF v.t = "string"
            THEN [c EXCEPT !.pc = "resolved", !.val = v]
            ELSE [c EXCEPT !.pc = "resolved", !.val = JString(S_Empty),
                           !.err = "wrongType"]
      [] OTHER ->
            IF v.t = "array"
            THEN [c EXCEPT !.pc = "resolved", !.val = v]
            ELSE [c EXCEPT !.pc = "resolved", !.val = JArray(<<>>),
                           !.err = "wrongType"]

\* Line 158: getSystemNames stores an array result.
Stored(c, v, names) ==
    IF c.kind \in {"completion", "restart", "prime"} /\ v.t = "array"
    THEN v.a ELSE names

\* socket 'data' (lines 200-218) completing a line that parses to v.
SocketData(r, v) ==
    /\ ~Settling
    /\ At(r).pc = "sent"
    /\ ServerUp(At(r).port)
    /\ Put(r, Responded([At(r) EXCEPT !.sock = "ended"], v))
    /\ systemNames' = Stored(At(r), v, systemNames)
    /\ isEvaluating' = (isEvaluating /\ ~EvaluateFinished(calls, calls'))
    /\ UNCHANGED <<limits, command, procs, process, port, initPromise, disposed,
                   currentEvaluationOutputs, wolframPath>>

\* socket 'data' completing a line that is not JSON (lines 213-216).
SocketGarbage(r) ==
    /\ ~Settling
    /\ At(r).pc = "sent"
    /\ ServerUp(At(r).port)
    /\ Put(r, RequestFailed(At(r), "parse"))
    /\ isEvaluating' = (isEvaluating /\ ~EvaluateFinished(calls, calls'))
    /\ UNCHANGED <<limits, command, procs, process, port, initPromise, disposed, systemNames,
                   currentEvaluationOutputs, wolframPath>>

\* socket 'data' (lines 200-218) delivering the bytes text: they are
\* appended to responseBuffer; without a newline in it nothing else
\* happens, else the text before the first newline is parsed.
SocketChunk(r, text) ==
    LET buf == At(r).rbuf \o text
    IN  IF ~Includes(buf, K_Newline)
        THEN /\ ~Settling
             /\ At(r).pc = "sent"
             /\ ServerUp(At(r).port)
             /\ Len(buf) <= MaxFrame
             /\ Put(r, [At(r) EXCEPT !.rbuf = buf])
             /\ UNCHANGED <<limits, command, procs, process, port, initPromise, disposed,
                            systemNames, currentEvaluationOutputs, isEvaluating,
                            wolframPath>>
        ELSE IF ParseJSON(FirstPart(buf)) = NoValue
        THEN SocketGarbage(r)
        ELSE SocketData(r, ParseJSON(FirstPart(buf)))

\* Mutant of SocketError: the request is sent again on a new connection.
SocketError_Retries(r) ==
    /\ ~Settling
    /\ At(r).pc \in {"connecting", "sent"}
    /\ Put(r, [At(r) EXCEPT !.pc = "connecting", !.wrote = FALSE,
                            !.err = "socket"])
    /\ At(r).err = "none"
    /\ UNCHANGED <<limits, command, procs, process, port, initPromise, disposed, systemNames,
                   currentEvaluationOutputs, isEvaluating, wolframPath>>

\* socket 'error' (lines 220-223): refused, reset.
SocketError(r) ==
    /\ ~Settling
    /\ At(r).pc \in {"connecting", "sent"}
    /\ Put(r, RequestFailed([At(r) EXCEPT !.sock = "destroyed"], "socket"))
    /\ isEvaluating' = (isEvaluating /\ ~EvaluateFinished(calls, calls'))
    /\ UNCHANGED <<limits, command, procs, process, port, initPromise, disposed, systemNames,
                   currentEvaluationOutputs, wolframPath>>

\* The grace timer of line 237 fires: lines 241-253.
GraceElapsed(k) ==
    /\ ~Settling
    /\ calls[k].pc = "grace"
    /\ calls' = [calls EXCEPT ![k].pc = "resolved",
                              ![k].val = EvaluateResult(calls[k].val,
                                             currentEvaluationOutputs)]
    /\ isEvaluating' = FALSE
    /\ UNCHANGED <<limits, command, procs, process, port, initPromise, disposed, systemNames,
                   currentEvaluationOutputs, wolframPath, starts>>

\* --------------------------------------------------------------- Next
Next ==
    \/ Dispose
    \/ Restart
    \/ \E p \in Paths \cup {NoPath}, r \in BOOLEAN : UpdateConfig(p, r)
    \/ Evaluate
    \/ GetSystemNames
    \/ GetFunctionUsage
    \/ Return
    \/ \E i \in DOMAIN procs, t \in Chunks, m \in BOOLEAN : StdoutData(i, t, m)
    \/ \E i \in DOMAIN procs, t \in Chunks : StderrData(i, t)
    \/ \E i \in DOMAIN procs : ProcessError(i)
    \/ \E i \in DOMAIN procs : Close(i)
    \/ \E r \in Refs : SocketConnect(r)
    \/ \E r \in Refs, v \in Responses : SocketData(r, v)
    \/ \E r \in Refs : SocketGarbage(r)
    \/ \E r \in Refs : SocketError(r)
    \/ \E k \in DOMAIN calls : GraceElapsed(k)

Spec == Init /\ [][Next]_vars

\* The supervisor alone: no caller issues a request.
NextLifecycle ==
    \/ Dispose
    \/ Restart
    \/ \E p \in Paths \cup {NoPath}, r \in BOOLEAN : UpdateConfig(p, r)
    \/ Return
    \/ \E i \in DOMAIN procs, t \in Chunks, m \in BOOLEAN : StdoutData(i, t, m)
    \/ \E i \in DOMAIN procs : ProcessError(i)
    \/ \E i \in DOMAIN procs : Close(i)
    \/ \E r \in Refs : SocketConnect(r)
    \/ \E r \in Refs, v \in Responses : SocketData(r, v)
    \/ \E r \in Refs : SocketGarbage(r)
    \/ \E r \in Refs : SocketError(r)

SpecLifecycle == InitWith(LifeProcs, 0, 0) /\ [][NextLifecycle]_vars

\* One evaluation after another on a kernel that is up: the engine has
\* announced its port (line 141), startKernel has resolved (line 144) and
\* the constructor's hook has fetched the names (lines 36-38, 158).
Lines == {L_KernelDebug, S_Empty, L_PowerInfy, L_Trailing, L_PlainOne,
          L_PlainTwo, L_Blank, L_IndentedKernel, L_StdoutLog, L_StderrLog,
          L_PaddedTag, L_KernelError, L_OneColon}

EnrichResponses == Responses \cup {JString(R_AlmostSentinel)}

InitEnrich ==
    /\ limits = [procs |-> 1, buf |-> EnrichBuf]
    /\ command = NoCommand
    /\ wolframPath = DefaultPath
    /\ procs = <<[NewProcess(TRUE) EXCEPT !.portFound = TRUE,
                                          !.sig = "resolved"]>>
    /\ process = 1
    /\ port = PortOf(1)
    /\ initPromise = 1
    /\ disposed = FALSE
    /\ systemNames = <<N_Sin, N_Cos>>
    /\ currentEvaluationOutputs = <<>>
    /\ isEvaluating = FALSE
    /\ starts = <<Over>>
    /\ calls = [k \in 1..1 |-> Idle]

NextEnrich ==
    \/ Evaluate
    \/ Return
    \/ \E t \in Lines : StderrData(1, t)
    \/ \E r \in Refs : SocketConnect(r)
    \/ \E r \in Refs, v \in EnrichResponses : SocketData(r, v)
    \/ \E k \in DOMAIN calls : GraceElapsed(k)

SpecEnrich == InitEnrich /\ [][NextEnrich]_vars

\* One request after another on a kernel that is up, the response arriving
\* in pieces.
FrameChunks == {K_Quote, K_Four, K_X, K_Newline, K_QuoteCRLF, K_EmptyArray,
                K_Names, K_TwoLines}

NextFraming ==
    \/ Evaluate
    \/ GetFunctionUsage
    \/ Return
    \/ \E r \in Refs : SocketConnect(r)
    \/ \E r \in Refs, t \in FrameChunks : SocketChunk(r, t)
    \/ \E r \in Refs : SocketError(r)

SpecFraming == InitEnrich /\ [][NextFraming]_vars

\* Overlapping evaluations on a kernel that is up.
InitOverlap ==
    /\ limits = [procs |-> 1, buf |-> MaxBuf]
    /\ command = NoCommand
    /\ wolframPath = DefaultPath
    /\ procs = <<[NewProcess(TRUE) EXCEPT !.portFound = TRUE,
                                          !.sig = "resolved"]>>
    /\ process = 1
    /\ port = PortOf(1)
    /\ initPromise = 1
    /\ disposed = FALSE
    /\ systemNames = <<N_Sin, N_Cos>>
    /\ currentEvaluationOutputs = <<>>
    /\ isEvaluating = FALSE
    /\ starts = <<Over>>
    /\ calls = [k \in 1..MaxOverlap |-> Idle]

NextOverlap ==
    \/ Evaluate
    \/ Return
    \/ \E t \in Chunks : StderrData(1, t)
    \/ \E r \in Refs : SocketConnect(r)
    \/ \E r \in Refs, v \in Responses : SocketData(r, v)
    \/ \E r \in Refs : SocketError(r)
    \/ \E k \in DOMAIN calls : GraceElapsed(k)

SpecOverlap == InitOverlap /\ [][NextOverlap]_vars

\* The handshake of one engine, byte by byte: what the engine writes to
\* stdout reaches the handler in chunks of any size.
O_Port12 == <<"P", "O", "R", "T", ":", "1", "2", "\n">>
O_Port305 == <<"o", "k", "\n", "P", "O", "R", "T", ":", "3", "0", "5", "\r", "\n">>
Streams == {O_Port12, O_Port305}

InitPort ==
    /\ limits = [procs |-> 1, buf |-> 0]
    /\ command = NoCommand
    /\ wolframPath = DefaultPath
    /\ \E s \in Streams : procs = <<[NewProcess(TRUE) EXCEPT !.stream = s]>>
    /\ process = 1
    /\ port = 0
    /\ initPromise = 1
    /\ disposed = FALSE
    /\ systemNames = <<>>
    /\ currentEvaluationOutputs = <<>>
    /\ isEvaluating = FALSE
    /\ starts = <<[NewCall("prime", "constructor") EXCEPT !.pc = "awaitStart"]>>
    /\ calls = [k \in 1..1 |-> Idle]

NextPort ==
    \/ \E i \in DOMAIN procs :
          \E n \in 1..Len(procs[i].stream) : StdoutBytes(i, n)
    \/ GetFunctionUsage
    \/ Return
    \/ \E r \in Refs : SocketError(r)

SpecPort == InitPort /\ [][NextPort]_vars

\* What the event loop and the operating system deliver for sure: a settled
\* call returns to its caller; a process that failed to start has its error
\* event, a killed or failed process its close event; a running engine
\* that has not yet announced its port does so; a connection to a live
\* server is established; the grace timer fires.
Fairness ==
    /\ WF_vars(Return)
    /\ WF_vars(\E i \in DOMAIN procs : ProcessError(i))
    /\ WF_vars(\E i \in DOMAIN procs : procs[i].st # "running" /\ Close(i))
    /\ WF_vars(\E i \in DOMAIN procs, t \in Chunks :
                  ~procs[i].portFound /\ StdoutData(i, t, TRUE))
    /\ \A j \in 1..MaxProcs :
          SF_vars(j \in DOMAIN starts /\ SocketConnect(<<"start", j>>))
    /\ \A k \in 1..MaxCalls :
          SF_vars(k \in DOMAIN calls /\ SocketConnect(<<"call", k>>))
    /\ WF_vars(\E k \in DOMAIN calls : GraceElapsed(k))

SpecLive == InitWith(MaxProcs, MaxCalls, 1) /\ [][Next]_vars /\ Fairness

\* ------------------------------------------ the evaluate-line command
\* The document: line n of the editor is Document[n + 1].
D_Code == <<"%", " ", "1", "+", "1">>
D_Percents == <<" ", "%", "%", " ">>
D_Plain == <<" ", "x", " ">>
D_Blank == <<" ", "\t">>
D_Indented == <<"\t", "%", "%", "2">>
Document == <<D_Code, D_Percents, D_Plain, D_Blank, D_Indented>>

S_ErrorTag == <<"E", "r", "r", "o", "r", ":">>

\* The line of a message that is about no line (line 407).
NoLine == Len(Document)

\* The active lines of editor.selections, in the order of the selections.
Selections ==
    UNION {[1..n -> 0..(Len(Document) - 1)] : n \in 1..MaxSel}

RECURSIVE DropPercents(_)
DropPercents(s) ==
    IF s # <<>> /\ Head(s) = "%" THEN DropPercents(Tail(s)) ELSE s

\* stripLeadingPercent (lines 412-414): text.replace(/^\s*%+\s*/, '').trim().
StripLeadingPercent(text) ==
    LET t == TrimStart(text)
    IN  IF t # <<>> /\ Head(t) = "%"
        THEN Trim(TrimStart(DropPercents(t)))
        ELSE Trim(text)

\* Array.prototype.sort((a, b) => a - b) of the members of a Set.
RECURSIVE SortAscending(_)
SortAscending(S) ==
    IF S = {} THEN <<>>
    ELSE LET least == CHOOSE a \in S : \A b \in S : a <= b
         IN  <<least>> \o SortAscending(S \ {least})

\* Line 319: the distinct active lines, ascending.
LineNumbers(selections) ==
    SortAscending({selections[n] : n \in DOMAIN selections})

\* Mutant of NextCode: the test of lines 343-345 is missing.
NextCode_NoSkip(lineNumbers, from) ==
    IF from <= Len(lineNumbers) THEN from ELSE 0

\* The for loop of lines 337-345 from index `from`: the next index whose
\* line has code left after stripping, 0 when the loop ends.
NextCode(lineNumbers, from) ==
    LET J == {j \in from..Len(lineNumbers) :
                 StripLeadingPercent(Document[lineNumbers[j] + 1]) # <<>>}
    IN  IF J = {} THEN 0 ELSE CHOOSE j \in J : \A m \in J : j <= m

\* withProgress has resolved: lines 403-405.
Finished(cmd) ==
    [cmd EXCEPT !.pc = "done", !.i = 0, !.info = cmd.successMessage]

\* Mutant of Caught: the results gathered so far are inserted before the
\* error is shown.
Caught_InsertsPartial(cmd) ==
    [cmd EXCEPT !.pc = "done", !.i = 0, !.inserted = cmd.results,
                !.errors = Append(@, [kind |-> "wolfram", lineNumber |-> NoLine])]

\* The catch of lines 406-408: the results are dropped with the callback.
Caught(cmd) ==
    [cmd EXCEPT !.pc = "done", !.i = 0,
                !.errors = Append(@, [kind |-> "wolfram", lineNumber |-> NoLine])]

\* The loop from index `from` up to its next await: evaluate() is called
\* for the next line with code (line 351); after the last line the edit is
\* requested when there are results (lines 372-373).
LoopFrom(cmd, from) ==
    LET j == NextCode(cmd.lineNumbers, from)
    IN  IF j # 0
        THEN [cmd EXCEPT !.pc = "evaluating", !.i = j,
                         !.issued = Append(@, cmd.lineNumbers[j])]
        ELSE IF cmd.results # <<>>
        THEN [cmd EXCEPT !.pc = "editing", !.i = 0]
        ELSE Finished(cmd)

\* The continuation of line 351 for the settled call c: a rejection leaves
\* the loop for the catch; result.startsWith (line 354) throws on a value
\* that is not a string; a string is reported when it starts with
\* "Error:" (lines 354-356), recorded (lines 366-370), and the loop goes on.
Resumed(cmd, c) ==
    IF c.pc = "rejected" THEN Caught([cmd EXCEPT !.rejected = TRUE])
    ELSE IF c.val.t # "string" THEN Caught(cmd)
    ELSE LET n == cmd.lineNumbers[cmd.i]
             reported ==
                 IF StartsWith(c.val.s, S_ErrorTag)
                 THEN [cmd EXCEPT !.errors =
                          Append(@, [kind |-> "line", lineNumber |-> n])]
                 ELSE cmd
             pushed ==
                 [reported EXCEPT !.results =
                     Append(@, [lineNumber |-> n, result |-> c.val.s])]
         IN  LoopFrom(pushed, cmd.i + 1)

\* kernelService.evaluate() called by the command (line 351), as Evaluate,
\* in a free slot of cs.
CommandEvaluates(cs) ==
    LET free == {k \in DOMAIN cs : cs[k].pc = "idle"}
        slot == CHOOSE k \in free : \A m \in free : k <= m
        c == SendRequest(NewCall("evaluate", "command"),
                         procs, port, disposed, initPromise)
    IN  /\ free # {}
        /\ calls' = [cs EXCEPT ![slot] = c]
        /\ isEvaluating' = ~Completed(c)
        /\ currentEvaluationOutputs' = <<>>

\* The command is invoked (lines 309-351) and runs to its first await.
CommandStart(selections, msg) ==
    /\ ~Settling
    /\ command.pc = "idle"
    /\ LET cmd == LoopFrom([NoCommand EXCEPT
                               !.lineNumbers = LineNumbers(selections),
                               !.successMessage = msg], 1)
       IN  /\ command' = cmd
           /\ IF cmd.pc = "evaluating"
              THEN CommandEvaluates(calls)
              ELSE UNCHANGED <<calls, isEvaluating, currentEvaluationOutputs>>
    /\ UNCHANGED <<limits, procs, process, port, initPromise, disposed,
                   systemNames, wolframPath, starts>>

\* The settled calls' outcomes reach their callers, as Return; the
\* command resumes after line 351 with the outcome of its call.
CommandReturn ==
    /\ Settling
    /\ starts' = [j \in DOMAIN starts |->
                    IF Completed(starts[j]) THEN Over ELSE starts[j]]
    /\ LET cs == [k \in DOMAIN calls |->
                    IF Completed(calls[k]) THEN Idle ELSE calls[k]]
           mine == {k \in DOMAIN calls :
                       Completed(calls[k]) /\ calls[k].via = "command"}
       IN  IF mine = {}
           THEN /\ calls' = cs
                /\ UNCHANGED <<command, isEvaluating, currentEvaluationOutputs>>
           ELSE LET cmd == Resumed(command, calls[CHOOSE k \in mine : TRUE])
                IN  /\ command' = cmd
                    /\ IF cmd.pc = "evaluating"
                       THEN CommandEvaluates(cs)
                       ELSE /\ calls' = cs
                            /\ UNCHANGED <<isEvaluating,
                                           currentEvaluationOutputs>>
    /\ UNCHANGED <<limits, procs, process, port, initPromise, disposed,
                   systemNames, wolframPath>>

\* editor.edit has applied the insertions (lines 373-378); lines 380-401
\* move the selections and the callback returns.
EditApplied ==
    /\ ~Settling
    /\ command.pc = "editing"
    /\ command' = Finished([command EXCEPT !.inserted = command.results])
    /\ UNCHANGED <<limits, procs, process, port, initPromise, disposed,
                   systemNames, currentEvaluationOutputs, isEvaluating,
                   wolframPath, starts, calls>>

CommandResponses == {JString(S_Sentinel), JString(R_Four), JNumber}

\* One invocation of the command on a kernel that is up.
NextCommand ==
    \/ \E selections \in Selections, msg \in BOOLEAN :
           CommandStart(selections, msg)
    \/ CommandReturn
    \/ EditApplied
    \/ Dispose
    \/ \E r \in Refs : SocketConnect(r)
    \/ \E r \in Refs, v \in CommandResponses : SocketData(r, v)
    \/ \E r \in Refs : SocketError(r)
    \/ \E k \in DOMAIN calls : GraceElapsed(k)

SpecCommand == InitOverlap /\ [][NextCommand]_vars

\* ============================================================== claims

\* C1: at most one engine process spawned by the service is live (spawned,
\* not exited, not sent a kill signal) in every reachable state.
C1_AtMostOneLive == Cardinality(LiveProcesses) <= 1

\* C2: after dispose() returns no engine process of the service is live:
\* the most recently spawned one has been sent the kill signal (or has
\* exited), whatever restarts and close events came before.
C2_DisposeKillsAll == [][Dispose => LiveProcesses' = {}]_vars

\* C3: no request is sent before the InitializationSignal resolves.
\* A request issued while initPromise is pending is held at the await;
\* while it is held no socket is opened and nothing is written; it leaves
\* the await only when that promise has settled, and if it then connects,
\* the promise has resolved and the port is the one announced by the
\* process whose start the promise stands for.
C3_Held(c) ==
    c.pc = "awaitInit" =>
        /\ c.aw \in DOMAIN procs
        /\ procs[c.aw].sig = "pending"
        /\ c.port = 0
        /\ ~c.wrote

C3_Released(c, d) ==
    (c.pc = "awaitInit" /\ d.pc # "awaitInit") =>
        /\ procs'[c.aw].sig # "pending"
        /\ d.port # 0 => (procs'[c.aw].sig = "resolved" /\ d.port = PortOf(c.aw))

C3_IssuedPending(c, d) ==
    (/\ c.pc = "idle" /\ d.pc # "idle"
     /\ ~disposed
     /\ procs[initPromise].sig = "pending"
     /\ (d.kind = "completion" => systemNames = <<>>))
    => (d.pc = "awaitInit" /\ d.aw = initPromise)

C3_HookPending(j) ==
    (/\ starts[j].pc = "awaitStart" /\ starts'[j].pc # "awaitStart"
     /\ procs'[j].sig = "resolved"
     /\ ~disposed
     /\ systemNames = <<>>
     /\ procs'[initPromise].sig = "pending")
    => (starts'[j].pc = "awaitInit" /\ starts'[j].aw = initPromise)

C4_Refused(c, d) ==
    (c.pc = "idle" /\ d.pc # "idle") => (Completed(d) /\ d.port = 0 /\ ~d.wrote)

C4_DisposalTerminal ==
    [][disposed =>
          /\ disposed'
          /\ \A k \in DOMAIN calls : C4_Refused(calls[k], calls'[k])]_vars

\* C5: restart() called with a non-empty cache empties it, and a restart()
\* that resolves has sent exactly one completion request to the engine it
\* started, whose result is the new cache.
C5_Invoked == Len(starts') > Len(starts) /\ systemNames # <<>>

C5_Resolves(j) ==
    /\ systemNames # <<>>
    /\ starts[j].kind = "restart"
    /\ starts[j].pc # "resolved"
    /\ starts'[j].pc = "resolved"

C5_RestartRefetches ==
    [][/\ C5_Invoked => systemNames' = <<>>
       /\ \A j \in DOMAIN starts :
             C5_Resolves(j) =>
                /\ starts'[j].wrote
                /\ starts'[j].port = PortOf(j)
                /\ starts'[j].val = JArray(systemNames')]_vars

\* C6 (as claimed): once a getSystemNames() call has returned a list
\* obtained from a completion request, a second call returns the same
\* memoized sequence and issues no completion request.
C6_Obtained(c, d) ==
    /\ c.kind \in {"completion", "restart", "prime"}
    /\ c.pc = "sent"
    /\ d.pc = "resolved"
    /\ d.err = "none"

\* The second call, made when the first has returned list v.
C6_SecondHits(v) ==
    LET second == GetSystemNamesBody(NewCall("completion", "caller"),
                      systemNames', procs', port', disposed', initPromise')
    IN  /\ second.pc = "resolved"
        /\ second.hit
        /\ second.val = v
        /\ second.port = 0

C6_IssuedOnCache(c, d) ==
    (c.pc = "idle" /\ d.kind = "completion" /\ systemNames # <<>>) =>
        /\ d.pc = "resolved"
        /\ d.hit
        /\ d.val = JArray(systemNames)
        /\ d.port = 0
        /\ ~d.wrote

C7_Degrades(c) ==
    /\ c.kind \in {"completion", "prime", "usage"} => c.pc # "rejected"
    /\ (c.kind \in {"completion", "prime"} /\ c.err # "none") =>
          (c.pc = "resolved" /\ c.val = JArray(<<>>))
    /\ (c.kind = "usage" /\ c.err # "none") =>
          (c.pc = "resolved" /\ c.val = JString(S_Empty))

C7_NeverRejects == \A r \in Refs : C7_Degrades(At(r))

\* C7 witness: a getFunctionUsage() call whose response did not parse has
\* returned "".
C7_Witness ==
    \E k \in DOMAIN calls :
        /\ calls[k].kind = "usage"
        /\ calls[k].err = "parse"
        /\ calls[k].pc = "resolved"
        /\ calls[k].val = JString(S_Empty)

\* C8: updateConfig(config, restartKernel) starts no restart when the path
\* in config equals the current one, is absent, or restartKernel is false
\* (as in the constructor, which leaves exactly one process), and starts
\* exactly one restart when the path differs and restartKernel is true.
C8_Expected(p, r) == IF r /\ p # NoPath /\ p # wolframPath THEN 1 ELSE 0

C8_UpdateConfigRestarts ==
    /\ (Len(procs) = 1 /\ Len(starts) = 1)
    /\ [][\A p \in Paths \cup {NoPath}, r \in BOOLEAN :
             UpdateConfig(p, r) =>
                /\ Len(procs') = Len(procs) + C8_Expected(p, r)
                /\ Len(starts') = Len(starts) + C8_Expected(p, r)
                /\ C8_Expected(p, r) = 1 =>
                      /\ starts'[Len(starts')].kind = "restart"
                      /\ starts'[Len(starts')].pc = "awaitStart"]_vars

\* C8 witness: a restart started by updateConfig with a changed path is
\* waiting for its new process.
C8_Witness ==
    \E j \in DOMAIN starts :
        /\ starts[j].kind = "restart"
        /\ starts[j].via = "updateConfig"
        /\ starts[j].pc = "awaitStart"
        /\ wolframPath # DefaultPath

\* C9: evaluate() sets the evaluating flag and empties the buffer before it
\* sends its request, and whenever an evaluate() call completes (result,
\* enriched error, or rejection) the evaluating flag is false.
C9_Started(c, d) ==
    (c.pc = "idle" /\ d.kind = "evaluate") =>
        /\ currentEvaluationOutputs' = <<>>
        /\ ~Completed(d) => (isEvaluating' /\ ~d.wrote)

C9_Finished(c, d) ==
    (d.kind = "evaluate" /\ ~Completed(c) /\ Completed(d)) => ~isEvaluating'

C9_FlagCleared ==
    [][\A k \in DOMAIN calls :
          /\ C9_Started(calls[k], calls'[k])
          /\ C9_Finished(calls[k], calls'[k])]_vars

\* C9 witness: an evaluate() call has rejected on a socket error and the
\* flag is false.
C9_Witness ==
    \E k \in DOMAIN calls :
        /\ calls[k].kind = "evaluate"
        /\ calls[k].pc = "rejected"
        /\ calls[k].err = "socket"
        /\ ~isEvaluating

\* C10: evaluate() enriches if and only if the response is exactly the
\* sentinel "Error: Evaluation failed": it then returns "Error: " followed
\* by the first captured line that, trimmed, is non-empty, has no
\* diagnostic-log prefix and contains "::", else by the first such line
\* without "::", else the sentinel itself; any other response is returned
\* unchanged.  The two buffers of the spec give "Error: Power::infy:
\* message" and "Error: plain line one".
C10_Kept(outs) ==
    {i \in 1..Len(outs) :
        LET t == Trim(outs[i])
        IN  /\ t # <<>>
            /\ ~StartsWith(t, S_KernelTag)
            /\ ~StartsWith(t, S_StdoutTag)
            /\ ~StartsWith(t, S_StderrTag)}

C10_Tagged(outs) ==
    {i \in C10_Kept(outs) : Includes(Trim(outs[i]), S_MessageTag)}

C10_First(S) == CHOOSE i \in S : \A j \in S : i <= j

C10_Expected(outs) ==
    IF C10_Kept(outs) = {} THEN JString(S_Sentinel)
    ELSE IF C10_Tagged(outs) # {}
    THEN JString(S_ErrorPrefix \o Trim(outs[C10_First(C10_Tagged(outs))]))
    ELSE JString(S_ErrorPrefix \o Trim(outs[C10_First(C10_Kept(outs))]))

C10_Answered(k, v) ==
    (SocketData(<<"call", k>>, v) /\ calls[k].kind = "evaluate") =>
        IF v = JString(S_Sentinel)
        THEN calls'[k].pc = "grace"
        ELSE /\ calls'[k].pc = "resolved"
             /\ calls'[k].val = v
             /\ calls'[k].err = "none"

C10_Enriched(k) ==
    (calls[k].pc = "grace" /\ calls'[k].pc = "resolved") =>
        calls'[k].val = C10_Expected(currentEvaluationOutputs)

C10_Enrichment ==
    /\ EvaluateResult(JString(S_Sentinel),
           <<L_KernelDebug, S_Empty, L_PowerInfy, L_Trailing>>)
         = JString(E_PowerInfy)
    /\ EvaluateResult(JString(S_Sentinel), <<L_PlainOne, L_PlainTwo>>)
         = JString(E_PlainOne)
    /\ [][\A k \in DOMAIN calls :
             /\ \A v \in EnrichResponses : C10_Answered(k, v)
             /\ C10_Enriched(k)]_vars

\* C10 witness: with the first buffer of the spec captured, an evaluate()
\* call answered with the sentinel has returned "Error: Power::infy:
\* message".
C10_Witness ==
    \E k \in DOMAIN calls :
        /\ calls[k].kind = "evaluate"
        /\ calls[k].pc = "resolved"
        /\ currentEvaluationOutputs =
              <<L_KernelDebug, S_Empty, L_PowerInfy, L_Trailing>>
        /\ calls[k].val = JString(E_PowerInfy)
\* C11: an engine-side evaluation failure is never a rejection: after the
\* sentinel response evaluate() resolves with a string, the enriched error
\* or the sentinel itself; evaluate() rejects exactly on a transport-level
\* failure (disposed, initialization rejected, no port, socket error,
\* parse failure).
C11_Transport == {"disposed", "init", "notRunning", "socket", "parse"}

C11_Outcome(c) ==
    c.kind = "evaluate" =>
        /\ c.pc = "rejected" <=> c.err \in C11_Transport
        /\ c.pc = "resolved" => c.err = "none"
        /\ c.pc = "grace" => (c.err = "none" /\ c.val = JString(S_Sentinel))

C11_AfterSentinel(c, d) ==
    (c.kind = "evaluate" /\ c.pc = "grace" /\ d # c) =>
        /\ d.pc = "resolved"
        /\ d.val.t = "string"
        /\ \/ d.val = JString(S_Sentinel)
           \/ StartsWith(d.val.s, S_ErrorPrefix) /\ d.val # JString(S_Sentinel)

C11_EngineFailureResolves ==
    /\ [](\A k \in DOMAIN calls : C11_Outcome(calls[k]))
    /\ [][\A k \in DOMAIN calls : C11_AfterSentinel(calls[k], calls'[k])]_vars

\* C11 witness: no captured line qualified and evaluate() has returned the
\* sentinel as a string.
C11_Witness ==
    \E k \in DOMAIN calls :
        /\ calls[k].kind = "evaluate"
        /\ calls[k].pc = "resolved"
        /\ calls[k].val = JString(S_Sentinel)

\* C12: dispose() is idempotent: a dispose() that follows a dispose()
\* raises nothing, sends no kill signal and leaves the state as the first
\* call left it (flag set, no handle); over any sequence of operations no
\* process is sent the kill signal more than once.
C12_SecondIsNoOp ==
    (Dispose /\ disposed /\ process = 0) => UNCHANGED vars

C12_FirstLeaves ==
    Dispose => (disposed' /\ process' = 0)

C12_DisposeIdempotent ==
    /\ [](\A i \in DOMAIN procs : procs[i].kills <= 1)
    /\ [][C12_FirstLeaves /\ C12_SecondIsNoOp]_vars

\* C12 witness: the service is disposed, nothing is left to kill, and the
\* process it held was sent the signal once.
C12_Witness ==
    /\ disposed
    /\ process = 0
    /\ \E i \in DOMAIN procs : procs[i].kills = 1 /\ procs[i].st = "killed"

\* C13: a request that passes the initialization wait (service not
\* disposed, the awaited start resolved) while no port is set fails with
\* the not-running error at once, and no socket is opened for it: evaluate
\* rejects, getSystemNames and getFunctionUsage fall back to [] and "".
C13_Request(d) ==
    \/ d.kind \in {"evaluate", "usage"}
    \/ d.kind = "completion" /\ ~d.hit

C13_NotRunning(d) ==
    /\ Completed(d)
    /\ d.err = "notRunning"
    /\ d.port = 0
    /\ ~d.wrote
    /\ d.kind = "evaluate" => d.pc = "rejected"

\* issued after the wait is over
C13_Issued(c, d) ==
    (/\ c.pc = "idle" /\ C13_Request(d)
     /\ ~disposed /\ procs[initPromise].sig = "resolved" /\ port = 0)
        => C13_NotRunning(d)

\* released from the wait
C13_Passed(c, d) ==
    (/\ c.pc = "awaitInit" /\ d.pc # "awaitInit"
     /\ procs'[c.aw].sig = "resolved" /\ port' = 0)
        => C13_NotRunning(d)

C13_NotReadyFailure ==
    /\ [](\A r \in Refs : At(r).err = "notRunning" =>
                            (At(r).port = 0 /\ ~At(r).wrote))
    /\ [][/\ \A k \in DOMAIN calls :
               /\ C13_Issued(calls[k], calls'[k])
               /\ C13_Passed(calls[k], calls'[k])
          /\ \A j \in DOMAIN starts :
               C13_Passed(starts[j], starts'[j])]_vars

\* C13 witness: the engine had announced its port and has exited since; an
\* evaluate() call has been rejected as not running, without a socket.
C13_Witness ==
    \E k \in DOMAIN calls :
        /\ calls[k].kind = "evaluate"
        /\ calls[k].pc = "rejected"
        /\ calls[k].err = "notRunning"
        /\ calls[k].port = 0
        /\ procs[initPromise].portFound
        /\ procs[initPromise].st = "closed"

\* C14: a request issued while the disposed flag is true fails at once with
\* the disposed error, before the initialization signal is awaited (so also
\* when that signal stays pending forever), and opens no socket.
C14_Issued(c, d) ==
    (c.pc = "idle" /\ C13_Request(d) /\ disposed) =>
        /\ Completed(d)
        /\ d.err = "disposed"
        /\ ~d.waited
        /\ d.aw = 0
        /\ d.port = 0
        /\ ~d.wrote
        /\ d.kind = "evaluate" => d.pc = "rejected"

C14_DisposedImmediate ==
    /\ [](\A r \in Refs : At(r).err = "disposed" =>
                            (Completed(At(r)) /\ At(r).port = 0))
    /\ [][\A k \in DOMAIN calls : C14_Issued(calls[k], calls'[k])]_vars

\* C14 witness: the start was killed before it announced a port, its signal
\* is pending for ever, and an evaluate() call has been rejected as disposed.
C14_Witness ==
    \E k \in DOMAIN calls :
        /\ calls[k].kind = "evaluate"
        /\ calls[k].pc = "rejected"
        /\ calls[k].err = "disposed"
        /\ disposed
        /\ procs[initPromise].sig = "pending"
        /\ procs[initPromise].st \in {"killed", "closed"}

\* C15: nothing restarts or retries by itself.  A process is spawned only
\* by construction or by a restart() invocation (direct, or by updateConfig
\* with a changed path and restart requested), one per invocation, so the
\* spawns number one plus the restart() invocations; a process that has
\* exited or failed never runs again, and a request that has connected is
\* never connected or written again.
C15_SpawnedByRestart ==
    Len(procs') # Len(procs) =>
        /\ Restart \/ \E p \in Paths : UpdateConfig(p, TRUE)
        /\ Len(procs') = Len(procs) + 1
        /\ Len(starts') = Len(starts) + 1
        /\ starts'[Len(starts')].kind = "restart"

C15_NoRevival ==
    \A i \in DOMAIN procs :
        /\ procs'[i].st = "running" => procs[i].st = "running"
        /\ procs'[i].st = "failed" => procs[i].st = "failed"

C15_NoResend(c, d) ==
    /\ d.pc = "connecting" => c.pc \in {"idle", "awaitStart", "awaitInit", "connecting"}
    /\ (c.pc = "connecting" /\ d.pc = "connecting") => d = c
    /\ (c.wrote /\ ~d.wrote) => d.pc \in {"idle", "over"}
    /\ Completed(c) => d.pc \in {"idle", "over", c.pc}

C15_NoAutomaticRestart ==
    /\ [](Len(procs) = Len(starts))
    /\ [][/\ C15_SpawnedByRestart
          /\ C15_NoRevival
          /\ \A k \in DOMAIN calls : C15_NoResend(calls[k], calls'[k])
          /\ \A j \in DOMAIN starts : C15_NoResend(starts[j], starts'[j])]_vars

\* C15 witness: the only process has exited, a request has failed on its
\* socket, and there is still one process and no new connection.
C15_Witness ==
    /\ Len(procs) = 1
    /\ procs[1].st = "closed"
    /\ \E k \in DOMAIN calls :
          /\ calls[k].kind = "evaluate"
          /\ calls[k].pc = "rejected"
          /\ calls[k].err = "socket"

\* C16: port discovery is one-shot per start.  The first marker match in a
\* process's standard output sets the port and resolves that start's
\* signal; a later stdout chunk of the same process that carries a marker
\* neither changes the port nor settles anything; a settled signal never
\* changes.
C16_FirstMatch(i, t) ==
    (StdoutData(i, t, TRUE) /\ ~procs[i].portFound) =>
        /\ port' = PortOf(i)
        /\ procs'[i].portFound
        /\ procs[i].sig = "pending"
        /\ procs'[i].sig = "resolved"

C16_LaterMatch(i, t) ==
    (StdoutData(i, t, TRUE) /\ procs[i].portFound) =>
        /\ port' = port
        /\ procs' = procs
        /\ starts' = starts
        /\ calls' = calls

C16_SettledOnce(i) ==
    /\ procs[i].sig # "pending" => procs'[i].sig = procs[i].sig
    /\ procs[i].portFound => procs'[i].portFound

C16_PortOneShot ==
    [][\A i \in DOMAIN procs :
          /\ C16_SettledOnce(i)
          /\ \A t \in Chunks : C16_FirstMatch(i, t) /\ C16_LaterMatch(i, t)]_vars

\* C16 witness: the second process has announced its port, the close of its
\* killed predecessor has unset the port since, and the process is still
\* writing to stdout.
C16_Witness ==
    /\ Len(procs) = 2
    /\ procs[2].portFound
    /\ procs[2].st = "running"
    /\ procs[1].st = "closed"
    /\ port = 0

\* C17: response framing.  A request settles on a 'data' event only when
\* the bytes accumulated on its connection contain a newline; it then
\* resolves with the JSON value of the bytes before the first newline,
\* whatever follows it, or rejects when those bytes are not JSON; while no
\* newline has arrived the call stays unsettled and only accumulates.
C17_Line(buf) ==
    LET n == CHOOSE i \in 1..Len(buf) :
                 buf[i] = "\n" /\ \A m \in 1..(i - 1) : buf[m] # "\n"
    IN  SubSeq(buf, 1, n - 1)

C17_Parsed(c, d, line) ==
    IF ParseJSON(line) = NoValue
    THEN /\ d.err = "parse"
         /\ c.kind = "evaluate" => d.pc = "rejected"
         /\ c.kind = "usage" => (d.pc = "resolved" /\ d.val = JString(S_Empty))
    ELSE /\ d.pc = "resolved"
         /\ c.kind = "evaluate" => (d.err = "none" /\ d.val = ParseJSON(line))
         /\ c.kind = "usage" =>
               IF ParseJSON(line).t = "string"
               THEN d.err = "none" /\ d.val = ParseJSON(line)
               ELSE d.err = "wrongType"

C17_Chunk(k, t) ==
    SocketChunk(<<"call", k>>, t) =>
        LET buf == calls[k].rbuf \o t
        IN  IF \A i \in 1..Len(buf) : buf[i] # "\n"
            THEN calls'[k] = [calls[k] EXCEPT !.rbuf = buf]
            ELSE C17_Parsed(calls[k], calls'[k], C17_Line(buf))

C17_SettledByNewline(k) ==
    (calls[k].pc = "sent" /\ calls'[k].pc # "sent" /\ calls'[k].err # "socket")
        => \E t \in FrameChunks :
              /\ SocketChunk(<<"call", k>>, t)
              /\ \E i \in 1..Len(t) : t[i] = "\n"

C17_ResponseFraming ==
    /\ ParseJSON(<<"\"", "4", "\"">>) = JString(R_Four)
    /\ ParseJSON(<<"\"", "4", "\"", "\r">>) = JString(R_Four)
    /\ ParseJSON(<<"[", "\"", "x", "\"", "]">>) = JArray(<<K_X>>)
    /\ ParseJSON(<<"\"", "4">>) = NoValue
    /\ ParseJSON(<<"4", "\n", "x">>) = NoValue
    /\ [](\A k \in DOMAIN calls :
             (calls[k].pc = "sent" /\ calls[k].rbuf # <<>>) =>
                 \A i \in 1..Len(calls[k].rbuf) : calls[k].rbuf[i] # "\n")
    /\ [][\A k \in DOMAIN calls :
             /\ \A t \in FrameChunks : C17_Chunk(k, t)
             /\ C17_SettledByNewline(k)]_vars

\* C17 witness: the response arrived in three pieces, the quote, the 4,
\* and the closing quote with the line end; evaluate() has resolved with
\* the string "4".
C17_Witness ==
    \E k \in DOMAIN calls :
        /\ calls[k].kind = "evaluate"
        /\ calls[k].pc = "resolved"
        /\ calls[k].rbuf = <<"\"", "4">>
        /\ calls[k].val = JString(R_Four)

\* C18: one connection per request, then closed.  A request that reaches
\* the transport has one socket, connected to one port; once connected it
\* has written its request, once; and when the request has settled
\* (resolved, rejected on a parse failure, rejected on a socket error) the
\* client has closed that socket.
C18_OneConnection(c) ==
    /\ c.sock # "none" <=> c.port # 0
    /\ c.pc = "connecting" <=> c.sock = "connecting"
    /\ c.pc = "sent" => (c.sock = "open" /\ c.wrote)
    /\ c.wrote => c.sock \in {"open", "ended", "destroyed"}

C18_ClosedOnceSettled(c) ==
    (c.pc \in {"grace", "resolved", "rejected"} /\ c.sock # "none") =>
        c.sock \in {"ended", "destroyed"}

C19_LinesOf(t) ==
    IF t = T_TwoLines THEN <<<<"a", ":", ":", "b">>, <<"c">>>> ELSE <<t>>

C19_ChunkArrives(t) ==
    \E i \in DOMAIN procs :
        \/ StderrData(i, t)
        \/ \E m \in BOOLEAN : StdoutData(i, t, m)

C19_Chunk(t) ==
    C19_ChunkArrives(t) =>
        IF isEvaluating
        THEN currentEvaluationOutputs' = currentEvaluationOutputs \o C19_LinesOf(t)
        ELSE currentEvaluationOutputs' = currentEvaluationOutputs

C19_OnlyInWindow ==
    currentEvaluationOutputs' # currentEvaluationOutputs =>
        \/ Evaluate /\ currentEvaluationOutputs' = <<>>
        \/ isEvaluating /\ \E t \in Chunks : C19_ChunkArrives(t)

C19_InFlight(c) ==
    c.kind = "evaluate" /\ c.pc \in {"awaitInit", "connecting", "sent", "grace"}

C19_FlagFalls ==
    (isEvaluating /\ ~isEvaluating') =>
        \E k \in DOMAIN calls :
            /\ ~Completed(calls[k])
            /\ calls'[k].kind = "evaluate"
            /\ Completed(calls'[k])

C19_OneInFlight == Cardinality(DOMAIN calls) = 1

C19_BufferWindow ==
    /\ [](C19_OneInFlight =>
             \A k \in DOMAIN calls : C19_InFlight(calls[k]) => isEvaluating)
    /\ [][/\ \A t \in Chunks : C19_Chunk(t)
          /\ C19_OnlyInWindow
          /\ C19_FlagFalls]_vars

\* C19 witness: one chunk of two lines arrived during the evaluation, the
\* enrichment has read them, and the flag is false again.
C19_Witness ==
    /\ ~isEvaluating
    /\ currentEvaluationOutputs = <<<<"a", ":", ":", "b">>, <<"c">>>>
    /\ \E k \in DOMAIN calls :
          /\ calls[k].kind = "evaluate"
          /\ calls[k].pc = "resolved"
          /\ calls[k].val = JString(S_ErrorPrefix \o <<"a", ":", ":", "b">>)

\* C20: restart() rejects exactly when the start it made rejects, and
\* whenever restart() resolves the service is ready: the disposed flag is
\* false, the handle is the process that restart spawned and the port is
\* the one that process announced, also when the close event of the killed
\* predecessor is delivered after the new spawn or after the new port.
C20_Pending(j) == starts[j].kind = "restart" /\ ~Completed(starts[j])

C20_Rejects(j) ==
    (C20_Pending(j) /\ starts'[j].pc = "rejected") <=>
        /\ C20_Pending(j)
        /\ starts[j].pc = "awaitStart"
        /\ procs[j].sig = "pending"
        /\ procs'[j].sig = "rejected"

\* (no dispose() and no other restart() was called in the meantime: the
\* flag is still false and initPromise is still this restart's)
C20_Resolves(j) ==
    (/\ C20_Pending(j) /\ starts'[j].pc = "resolved"
     /\ ~disposed /\ initPromise = j) =>
        /\ ~disposed'
        /\ process' = j
        /\ port' = PortOf(j)

C20_RestartLeavesReady ==
    [][\A j \in DOMAIN starts : C20_Rejects(j) /\ C20_Resolves(j)]_vars

\* C21: whenever the port is set, it is the port announced by the most
\* recently spawned process, and that process has neither exited nor been
\* killed; callbacks of an earlier process never set or clear the port or
\* the handle of the current one.
C21_Current == Len(procs)

C21_PortIsCurrent ==
    port # 0 =>
        /\ port = PortOf(C21_Current)
        /\ procs[C21_Current].portFound
        /\ procs[C21_Current].st = "running"

\* C22: every start attempt's signal is eventually settled: once a process
\* has exited (or was killed and its close delivered) without having
\* announced a port, its signal is rejected, and a request or restart()
\* that awaits it completes.
C22_ExitedUnannounced(i) ==
    /\ i \in DOMAIN procs
    /\ procs[i].st = "closed"
    /\ ~procs[i].portFound

C22_Settled(i) == i \in DOMAIN procs /\ procs[i].sig # "pending"

C22_Waiting(k) ==
    /\ k \in DOMAIN calls
    /\ calls[k].pc = "awaitInit"
    /\ C22_ExitedUnannounced(calls[k].aw)

C22_SignalSettles ==
    /\ \A i \in 1..MaxProcs : C22_ExitedUnannounced(i) ~> C22_Settled(i)
    /\ \A k \in 1..MaxCalls : C22_Waiting(k) ~> ~C22_Waiting(k)

\* C23: the discovered port is the whole decimal integer the engine wrote
\* after "PORT:", however its standard output is cut into chunks, a cut
\* inside "PORT:" or inside the digits included.
C23_Announced(s) ==
    IF s = O_Port12 THEN 12 ELSE IF s = O_Port305 THEN 305 ELSE 0

C23_FullPort ==
    \A i \in DOMAIN procs :
        procs[i].portFound => port = C23_Announced(procs[i].stream)

\* C24: the evaluating flag is true whenever an evaluate() call is in
\* flight, and the buffer is emptied only when no other evaluate() call is
\* in flight: with two overlapping calls the completion of one does not
\* stop the capture for the other, and the start of one does not erase the
\* lines captured for the other.
C24_OthersInFlight(k) ==
    \E m \in DOMAIN calls : m # k /\ C19_InFlight(calls[m])

C24_StartKeepsLines ==
    \A k \in DOMAIN calls :
        (/\ calls[k].pc = "idle" /\ calls'[k].kind = "evaluate"
         /\ C24_OthersInFlight(k))
            => currentEvaluationOutputs' = currentEvaluationOutputs

C24_OverlapSafe ==
    /\ [](\A k \in DOMAIN calls : C19_InFlight(calls[k]) => isEvaluating)
    /\ [][C24_StartKeepsLines]_vars

\* C25: a request that was waiting on the initialization signal while
\* dispose() or restart() was called is never sent to a killed process's
\* port: when its wait ends it fails, or it connects to the port of the
\* process that is current at that moment, which is running.
C25_AfterWait(c, d) ==
    (c.pc = "awaitInit" /\ d.pc = "connecting") =>
        /\ d.port = PortOf(Len(procs'))
        /\ procs'[Len(procs')].st = "running"

C25_NoStalePort ==
    [][/\ \A k \in DOMAIN calls : C25_AfterWait(calls[k], calls'[k])
       /\ \A j \in DOMAIN starts : C25_AfterWait(starts[j], starts'[j])]_vars

\* C26: at most one completion request is sent per kernel instance:
\* getSystemNames() calls that overlap before the cache is filled, and calls
\* made after an empty answer, do not cause a second completion request.
C26_SentTo(c, i) ==
    /\ c.kind \in {"completion", "prime", "restart"}
    /\ c.wrote
    /\ c.port = PortOf(i)

C26_Requests(i) ==
    Cardinality({j \in DOMAIN starts : C26_SentTo(starts[j], i)})
        + Cardinality({k \in DOMAIN calls : C26_SentTo(calls[k], i)})

C26_OneCompletionRequest == \A i \in DOMAIN procs : C26_Requests(i) <= 1

\* C27: the constructor's hook does not deadlock on its own signal: when the
\* first process's port is discovered the signal resolves and the priming
\* call, which awaits that signal from inside the continuation that defines
\* it, goes on to connect in the same turn; the priming completion request
\* is then eventually written, unless the engine goes away or the socket
\* fails first.
C27_Discovered ==
    /\ ~procs[1].portFound
    /\ procs'[1].portFound
    /\ starts[1].pc = "awaitStart"
    /\ ~disposed
    /\ initPromise = 1

C27_Released ==
    C27_Discovered =>
        /\ procs'[1].sig = "resolved"
        /\ starts'[1].pc = "connecting"
        /\ starts'[1].port = PortOf(1)

C27_Priming == starts[1].kind = "prime" /\ starts[1].pc = "connecting"

C27_Sent == starts[1].kind = "prime" /\ starts[1].wrote

C27_HookNoDeadlock ==
    /\ [][C27_Released]_vars
    /\ C27_Priming ~> (C27_Sent \/ starts[1].err = "socket" \/ ~Live(1))

C27_Witness == C27_Sent /\ starts[1].pc = "sent" /\ procs[1].sig = "resolved"

\* C28: within one invocation of the evaluate-line command, evaluate() is
\* called for the selected lines in ascending line order, each call only
\* after the previous one completed, and never for a line whose code is
\* empty after stripping the leading percent signs; the invocation never
\* has two evaluate() calls in flight.
C28_HasCode(n) == StripLeadingPercent(Document[n + 1]) # <<>>

C28_Mine == {k \in DOMAIN calls : calls[k].via = "command"}

C28_InOrder ==
    /\ \A a, b \in DOMAIN command.issued :
          a < b => command.issued[a] < command.issued[b]
    /\ \A a \in DOMAIN command.issued : C28_HasCode(command.issued[a])
    /\ command.issued =
          SubSeq(SelectSeq(command.lineNumbers, C28_HasCode),
                 1, Len(command.issued))

C28_AfterPrevious ==
    Len(command'.issued) > Len(command.issued) =>
        \A k \in C28_Mine : Completed(calls[k])

C28_OneAtATime ==
    /\ [](C28_InOrder /\ Cardinality(C28_Mine) <= 1)
    /\ [][C28_AfterPrevious]_vars

C28_Witness ==
    /\ command.lineNumbers = <<0, 1, 4>>
    /\ command.issued = <<0, 4>>
    /\ \E k \in C28_Mine : calls[k].pc = "sent"

\* C29: all-or-nothing insertion: when evaluate() rejects for a selected
\* line of the evaluate-line command, nothing is inserted for any line, the
\* success message is not shown and an error message is shown; a result
\* string starting with "Error:" is reported and still inserted.
C29_Shown(kind, n) ==
    \E e \in DOMAIN command.errors :
        command.errors[e] = [kind |-> kind, lineNumber |-> n]

C29_NothingOnRejection ==
    command.rejected =>
        /\ command.pc = "done"
        /\ command.inserted = <<>>
        /\ ~command.info
        /\ C29_Shown("wolfram", NoLine)

C29_ErrorResultKept ==
    /\ \A r \in DOMAIN command.results :
          StartsWith(command.results[r].result, S_ErrorTag) =>
              C29_Shown("line", command.results[r].lineNumber)
    /\ (command.pc = "done" /\ ~C29_Shown("wolfram", NoLine)) =>
          command.inserted = command.results

C29_AllOrNothing == C29_NothingOnRejection /\ C29_ErrorResultKept

C29_Witness ==
    /\ command.rejected
    /\ command.successMessage
    /\ \E r \in DOMAIN command.results :
          StartsWith(command.results[r].result, S_ErrorTag)

C29_ErrorInserted ==
    /\ command.pc = "done"
    /\ \E r \in DOMAIN command.inserted :
          StartsWith(command.inserted[r].result, S_ErrorTag)

====
